---- MODULE Spec2Model ----
(***************************************************************************)
(* pathmaker: a generic HTTP method-and-path router.                       *)
(*                                                                         *)
(* A path template is compiled (router/route.rs, parse) into an anchored   *)
(* regular expression; a Build collects routes and finish() compiles them  *)
(* into a RegexSet; Router::lookup selects the first route, in            *)
(* registration order, whose method and pattern match.                     *)
(*                                                                         *)
(* Text is modelled as Rust models it: a str is a sequence of Unicode      *)
(* code points (naturals), its bytes are its UTF-8 encoding.  Regular      *)
(* expressions are kept as pattern strings and compiled by a parser for    *)
(* the syntax the crate uses; matching is leftmost-first backtracking.     *)
(***************************************************************************)
EXTENDS Naturals, Integers, Sequences, FiniteSets, TLC

(***************************************************************************)
(* Text.                                                                   *)
(***************************************************************************)

\* The printable ASCII characters, in code point order from U+0020 (the
\* grave accent, U+0060, is written by name).
Ascii ==
  <<
     " ", "!", "\"", "#", "$", "%", "&", "'", "(", ")", "*", "+", ",", "-", ".", "/",
     "0", "1", "2", "3", "4", "5", "6", "7", "8", "9", ":", ";", "<", "=", ">", "?",
     "@", "A", "B", "C", "D", "E", "F", "G", "H", "I", "J", "K", "L", "M", "N", "O",
     "P", "Q", "R", "S", "T", "U", "V", "W", "X", "Y", "Z", "[", "\\", "]", "^", "_",
     "GRAVE", "a", "b", "c", "d", "e", "f", "g", "h", "i", "j", "k", "l", "m", "n", "o",
     "p", "q", "r", "s", "t", "u", "v", "w", "x", "y", "z", "{", "|", "}", "~"
  >>

\* The code point of each printable ASCII character.
CodePoint == [c \in {Ascii[i] : i \in 1..Len(Ascii)} |->
                31 + (CHOOSE i \in 1..Len(Ascii) : Ascii[i] = c)]

\* The code point of a printable ASCII character written as a string.
Ord(c) == CodePoint[c]

\* A str literal: the tuple of its characters, as code points.
S(t) == [i \in 1..Len(t) |-> Ord(t[i])]

\* Option<T>: None is the empty tuple, Some(x) the one-element tuple.
None == <<>>
Some(x) == <<x>>

RECURSIVE Concat(_)
\* The concatenation of a sequence of strings.
Concat(ss) == IF ss = <<>> THEN <<>> ELSE Head(ss) \o Concat(Tail(ss))

RECURSIVE IndexOf(_, _, _)
\* The first index >= i of s holding c, or 0.
IndexOf(s, c, i) ==
  IF i > Len(s) THEN 0
  ELSE IF s[i] = c THEN i
  ELSE IndexOf(s, c, i + 1)

RECURSIVE Split(_, _)

\* The pieces of s around the separator at index k (k = 0: there is none).
SplitAt(s, sep, k) ==
  IF k = 0 THEN <<s>>
  ELSE <<SubSeq(s, 1, k - 1)>> \o Split(SubSeq(s, k + 1, Len(s)), sep)

\* str::split(sep) for a one-character separator: the pieces between the
\* separators, empty pieces kept; never an empty sequence.
Split(s, sep) == SplitAt(s, sep, IndexOf(s, sep, 1))

(***************************************************************************)
(* UTF-8 and percent-decoding (crate::normalize_url).                      *)
(***************************************************************************)

\* The UTF-8 bytes of one code point (str::as_bytes, per character).
Utf8Encode(cp) ==
  IF cp < 128 THEN <<cp>>
  ELSE IF cp < 2048 THEN <<192 + (cp \div 64), 128 + (cp % 64)>>
  ELSE IF cp < 65536
    THEN <<224 + (cp \div 4096), 128 + ((cp \div 64) % 64), 128 + (cp % 64)>>
  ELSE <<240 + (cp \div 262144), 128 + ((cp \div 4096) % 64),
         128 + ((cp \div 64) % 64), 128 + (cp % 64)>>

\* str::as_bytes: the UTF-8 encoding of a string.
AsBytes(s) == Concat([i \in 1..Len(s) |-> Utf8Encode(s[i])])

\* The value of an ASCII hexadecimal digit given as a byte, or -1.
HexVal(b) ==
  IF b \in 48..57 THEN b - 48
  ELSE IF b \in 65..70 THEN b - 55
  ELSE IF b \in 97..102 THEN b - 87
  ELSE -1

RECURSIVE PercentDecode(_)
\* percent_encoding::percent_decode: "%" followed by two hexadecimal digits
\* becomes the byte they name; every other byte, a stray "%" included, is
\* copied.
PercentDecode(bs) ==
  IF bs = <<>> THEN <<>>
  ELSE IF Head(bs) = Ord("%") /\ Len(bs) >= 3
          /\ HexVal(bs[2]) >= 0 /\ HexVal(bs[3]) >= 0
    THEN <<16 * HexVal(bs[2]) + HexVal(bs[3])>>
           \o PercentDecode(SubSeq(bs, 4, Len(bs)))
  ELSE <<Head(bs)>> \o PercentDecode(Tail(bs))

\* The bytes a UTF-8 lead byte may be followed by first, and how many
\* continuation bytes it takes; need = 0 marks a byte that starts nothing.
Utf8Lead(b) ==
  IF b \in 194..223 THEN [need |-> 1, lo |-> 128, hi |-> 191]
  ELSE IF b = 224 THEN [need |-> 2, lo |-> 160, hi |-> 191]
  ELSE IF b = 237 THEN [need |-> 2, lo |-> 128, hi |-> 159]
  ELSE IF b \in 225..239 THEN [need |-> 2, lo |-> 128, hi |-> 191]
  ELSE IF b = 240 THEN [need |-> 3, lo |-> 144, hi |-> 191]
  ELSE IF b \in 241..243 THEN [need |-> 3, lo |-> 128, hi |-> 191]
  ELSE IF b = 244 THEN [need |-> 3, lo |-> 128, hi |-> 143]
  ELSE [need |-> 0, lo |-> 0, hi |-> 0]

\* Is bs[i] a UTF-8 continuation byte?
IsCont(bs, i) == i <= Len(bs) /\ bs[i] \in 128..191

RECURSIVE DecodeUtf8Lossy(_)

\* The first character of the non-empty bs, whose lead byte is described by
\* ld, followed by the decoding of the rest: a valid sequence decodes to
\* its code point, a maximal invalid prefix to U+FFFD.
DecodeFirst(bs, ld) ==
  IF bs[1] < 128 THEN <<bs[1]>> \o DecodeUtf8Lossy(SubSeq(bs, 2, Len(bs)))
  ELSE IF ld.need = 0 \/ Len(bs) < 2 \/ ~(bs[2] \in ld.lo..ld.hi)
    THEN <<65533>> \o DecodeUtf8Lossy(SubSeq(bs, 2, Len(bs)))
  ELSE IF ld.need = 1
    THEN <<(bs[1] - 192) * 64 + (bs[2] - 128)>>
           \o DecodeUtf8Lossy(SubSeq(bs, 3, Len(bs)))
  ELSE IF ~IsCont(bs, 3)
    THEN <<65533>> \o DecodeUtf8Lossy(SubSeq(bs, 3, Len(bs)))
  ELSE IF ld.need = 2
    THEN <<(bs[1] - 224) * 4096 + (bs[2] - 128) * 64 + (bs[3] - 128)>>
           \o DecodeUtf8Lossy(SubSeq(bs, 4, Len(bs)))
  ELSE IF ~IsCont(bs, 4)
    THEN <<65533>> \o DecodeUtf8Lossy(SubSeq(bs, 4, Len(bs)))
  ELSE <<(bs[1] - 240) * 262144 + (bs[2] - 128) * 4096
           + (bs[3] - 128) * 64 + (bs[4] - 128)>>
         \o DecodeUtf8Lossy(SubSeq(bs, 5, Len(bs)))

\* String::from_utf8_lossy.
DecodeUtf8Lossy(bs) ==
  IF bs = <<>> THEN <<>> ELSE DecodeFirst(bs, Utf8Lead(bs[1]))

\* The text of str before index k (k = 0: all of it).
Before(str, k) == IF k = 0 THEN str ELSE SubSeq(str, 1, k - 1)

\* str.split_terminator("?").next().unwrap_or(str): the text before the
\* first "?" (all of it when there is none).
BeforeQuery(str) == Before(str, IndexOf(str, Ord("?"), 1))

\* crate::normalize_url: drop the query, percent-decode the bytes, read
\* them back as UTF-8.
normalize_url(string) ==
  DecodeUtf8Lossy(PercentDecode(AsBytes(BeforeQuery(string))))

(***************************************************************************)
(* Regular expressions (the regex crate, as far as the router uses it).    *)
(* A compiled expression is a sequence of nodes:                           *)
(*   start, end      the anchors ^ and $ (no multi-line mode: the text's   *)
(*                   own start and end)                                    *)
(*   char            one character of a class, repeated min..max times     *)
(*                   (max = -1: no upper limit), greedy                    *)
(*   group           a parenthesised body, taken once, or not at all when  *)
(*                   min = 0; idx > 0 is its capture index, idx = 0        *)
(*                   captures nothing                                      *)
(***************************************************************************)

\* A character class: a set of code point ranges, possibly negated.
Class(neg, ranges) == [neg |-> neg, ranges |-> ranges]

InClass(c, cls) == (\E r \in cls.ranges : r[1] <= c /\ c <= r[2]) # cls.neg

\* Unicode decimal digits (general category Nd), which \d means in the
\* crate's default Unicode mode: ASCII 0-9 and the digits of other scripts
\* (the Basic Multilingual Plane's most used ranges are listed).
UnicodeNd ==
  { <<48, 57>>, <<1632, 1641>>, <<1776, 1785>>, <<1984, 1993>>,
    <<2406, 2415>>, <<2534, 2543>>, <<2662, 2671>>, <<2790, 2799>>,
    <<2918, 2927>>, <<3046, 3055>>, <<3174, 3183>>, <<3302, 3311>>,
    <<3430, 3439>>, <<3664, 3673>>, <<3792, 3801>>, <<3872, 3881>>,
    <<4160, 4169>>, <<65296, 65305>> }

\* Unicode word characters, which \w means: letters, marks, digits and
\* connector punctuation (ASCII, Latin-1, Latin Extended, Greek and Cyrillic
\* letters are listed besides the digits).
UnicodeWord ==
  UnicodeNd \cup
  { <<65, 90>>, <<95, 95>>, <<97, 122>>, <<170, 170>>, <<181, 181>>,
    <<186, 186>>, <<192, 214>>, <<216, 246>>, <<248, 705>>,
    <<880, 884>>, <<891, 893>>, <<904, 906>>, <<910, 929>>, <<931, 1013>>,
    <<1015, 1153>>, <<1162, 1327>> }

Node(op, cls, min, max, idx, body) ==
  [op |-> op, cls |-> cls, min |-> min, max |-> max, idx |-> idx, body |-> body]

NoClass == Class(FALSE, {})
StartNode == Node("start", NoClass, 1, 1, 0, <<>>)
EndNode == Node("end", NoClass, 1, 1, 0, <<>>)
CharNode(cls) == Node("char", cls, 1, 1, 0, <<>>)
LitNode(c) == Node("char", Class(FALSE, {<<c, c>>}), 1, 1, 0, <<>>)
GroupNode(idx, body) == Node("group", NoClass, 1, 1, idx, body)

\* Is p[i] the printable ASCII character ch?
At(p, i, ch) == i <= Len(p) /\ p[i] = CodePoint[ch]

\* What parsing one item comes to: the node, the index after it, and the
\* number of capture groups opened so far.
Parsed(node, next, g) == [node |-> node, next |-> next, g |-> g]

RECURSIVE ParseClassItems(_, _, _)
\* The items of a bracketed class from p[i] to the closing "]": single
\* characters and lo-hi ranges.  [ranges, next]: next is past the "]".
ParseClassItems(p, i, acc) ==
  IF i > Len(p) \/ At(p, i, "]") THEN [ranges |-> acc, next |-> i + 1]
  ELSE IF At(p, i + 1, "-") /\ i + 2 <= Len(p) /\ ~At(p, i + 2, "]")
    THEN ParseClassItems(p, i + 3, acc \cup {<<p[i], p[i + 2]>>})
  ELSE ParseClassItems(p, i + 1, acc \cup {<<p[i], p[i]>>})

\* The class node of the items r, negated or not.
ClassParsed(neg, r, g) == Parsed(CharNode(Class(neg, r.ranges)), r.next, g)

\* A bracketed class; p[i] is the character after "[".
ParseClass(p, i, g) ==
  IF At(p, i, "^") THEN ClassParsed(TRUE, ParseClassItems(p, i + 1, {}), g)
  ELSE ClassParsed(FALSE, ParseClassItems(p, i, {}), g)

RECURSIVE ParseNat(_, _, _)
\* The decimal number at p[i]: [val, next].
ParseNat(p, i, acc) ==
  IF i <= Len(p) /\ p[i] \in 48..57
    THEN ParseNat(p, i + 1, 10 * acc + (p[i] - 48))
  ELSE [val |-> acc, next |-> i]

Rep(min, max, next) == [min |-> min, max |-> max, next |-> next]

\* The counted repetition {n} whose "{" is at p[i], n being the number read
\* after it; no repetition when that is not what is there.
CountedRep(p, i, n) ==
  IF n.next > i + 1 /\ At(p, n.next, "}") THEN Rep(n.val, n.val, n.next + 1)
  ELSE Rep(1, 1, i)

\* The repetition operator at p[i], if there is one: ?, +, * or {n}.
ParseRep(p, i) ==
  IF At(p, i, "?") THEN Rep(0, 1, i + 1)
  ELSE IF At(p, i, "+") THEN Rep(1, -1, i + 1)
  ELSE IF At(p, i, "*") THEN Rep(0, -1, i + 1)
  ELSE IF At(p, i, "{") THEN CountedRep(p, i, ParseNat(p, i + 1, 0))
  ELSE Rep(1, 1, i)

\* Where a group's body starts, p[i] being the character after its "(", and
\* whether the group captures: (?: is non-capturing, (?P<name> is a named
\* capture.
GroupOpen(p, i) ==
  IF At(p, i, "?") /\ At(p, i + 1, ":")
    THEN [captures |-> FALSE, next |-> i + 2]
  ELSE IF At(p, i, "?") /\ At(p, i + 1, "P") /\ At(p, i + 2, "<")
    THEN [captures |-> TRUE, next |-> IndexOf(p, CodePoint[">"], i) + 1]
  ELSE [captures |-> TRUE, next |-> i]

RECURSIVE ParseSeq(_, _, _, _)

\* The group node for the parsed body b, whose closing ")" is at b.next.
GroupParsed(idx, b) == Parsed(GroupNode(idx, b.nodes), b.next + 1, b.g)

\* The group opened as o describes, g groups having been opened before it.
ParseGroup(p, o, g) ==
  IF o.captures
    THEN GroupParsed(g + 1, ParseSeq(p, o.next, g + 1, <<>>))
  ELSE GroupParsed(0, ParseSeq(p, o.next, g, <<>>))

\* The item at p[i], without its repetition operator.
ParseAtom(p, i, g) ==
  IF At(p, i, "^") THEN Parsed(StartNode, i + 1, g)
  ELSE IF At(p, i, "$") THEN Parsed(EndNode, i + 1, g)
  ELSE IF At(p, i, ".")
    THEN Parsed(CharNode(Class(TRUE, {<<10, 10>>})), i + 1, g)
  ELSE IF At(p, i, "\\") /\ At(p, i + 1, "d")
    THEN Parsed(CharNode(Class(FALSE, UnicodeNd)), i + 2, g)
  ELSE IF At(p, i, "\\") /\ At(p, i + 1, "w")
    THEN Parsed(CharNode(Class(FALSE, UnicodeWord)), i + 2, g)
  ELSE IF At(p, i, "\\") /\ i + 1 <= Len(p)
    THEN Parsed(LitNode(p[i + 1]), i + 2, g)
  ELSE IF At(p, i, "[") THEN ParseClass(p, i + 1, g)
  ELSE IF At(p, i, "(") THEN ParseGroup(p, GroupOpen(p, i + 1), g)
  ELSE Parsed(LitNode(p[i]), i + 1, g)

\* The item atom with the repetition rep found after it, then the rest.
ParseRest(p, atom, rep, acc) ==
  ParseSeq(p, rep.next, atom.g,
           Append(acc, [atom.node EXCEPT !.min = rep.min, !.max = rep.max]))

\* The item atom, then its repetition operator and the rest.
ParseItem(p, atom, acc) == ParseRest(p, atom, ParseRep(p, atom.next), acc)

\* The nodes from p[i] to the end of the pattern or to the ")" closing the
\* group being parsed; g counts the capture groups opened so far.
\* [nodes, next, g]: next is the index of that ")" (or past the end).
ParseSeq(p, i, g, acc) ==
  IF i > Len(p) \/ At(p, i, ")") THEN [nodes |-> acc, next |-> i, g |-> g]
  ELSE ParseItem(p, ParseAtom(p, i, g), acc)

\* The program of a parsed pattern: its nodes and its number of capture
\* groups.
Program(r) == [nodes |-> r.nodes, ngroups |-> r.g]

\* The compiled form of a pattern string.
Compile(pattern) == Program(ParseSeq(pattern, 1, 0, <<>>))

\* A Regex: its pattern string (Regex::as_str) with the program compiled
\* from it.
Regex(pattern) == [src |-> pattern, prog |-> Compile(pattern)]

\* The end of a capture group entered at position from: a node the matcher
\* itself puts after the group's body (from is kept in min and max).
CloseNode(idx, from) == Node("close", NoClass, from, from, idx, <<>>)

RECURSIVE MaxRun(_, _, _, _)
\* How many characters of s from pos on are in cls, counting to limit at
\* most (limit = -1: no limit).
MaxRun(s, pos, cls, limit) ==
  IF limit = 0 \/ pos > Len(s) \/ ~InClass(s[pos], cls) THEN 0
  ELSE 1 + MaxRun(s, pos + 1, cls, IF limit = -1 THEN -1 ELSE limit - 1)

RECURSIVE Run(_, _, _, _)
RECURSIVE RunRep(_, _, _, _, _, _)

\* The first of two alternatives that matched.
OrElse(first, second) == IF first # None THEN first ELSE second

\* Match the nodes against s from position pos on, with the captures made
\* so far: None, or Some([end, caps]) for the first match in the crate's
\* preference order (a repetition takes as much as it can and gives back
\* one character at a time; an optional group is tried before it is
\* skipped).
Run(nodes, s, pos, caps) ==
  IF nodes = <<>> THEN Some([end |-> pos, caps |-> caps])
  ELSE
    CASE nodes[1].op = "start" ->
           IF pos = 1 THEN Run(Tail(nodes), s, pos, caps) ELSE None
      [] nodes[1].op = "end" ->
           IF pos = Len(s) + 1 THEN Run(Tail(nodes), s, pos, caps) ELSE None
      [] nodes[1].op = "char" ->
           RunRep(nodes[1], Tail(nodes), s, pos, caps,
                  MaxRun(s, pos, nodes[1].cls, nodes[1].max))
      [] nodes[1].op = "group" ->
           OrElse(Run(nodes[1].body \o <<CloseNode(nodes[1].idx, pos)>>
                        \o Tail(nodes), s, pos, caps),
                  IF nodes[1].min = 0 THEN Run(Tail(nodes), s, pos, caps)
                  ELSE None)
      [] nodes[1].op = "close" ->
           Run(Tail(nodes), s, pos,
               IF nodes[1].idx = 0 THEN caps
               ELSE [caps EXCEPT ![nodes[1].idx] =
                                   Some(SubSeq(s, nodes[1].min, pos - 1))])

\* The character node n taking k characters, then k - 1, ... down to n.min.
RunRep(n, rest, s, pos, caps, k) ==
  IF k < n.min THEN None
  ELSE OrElse(Run(rest, s, pos + k, caps), RunRep(n, rest, s, pos, caps, k - 1))

RECURSIVE NoCaptures(_)
\* The captures before a match is tried: n groups, none of which has
\* taken part.
NoCaptures(n) == IF n = 0 THEN <<>> ELSE Append(NoCaptures(n - 1), None)

RECURSIVE Search(_, _, _)

\* The match r found from position st, or the search going on after st.
SearchStep(re, s, st, r) ==
  IF r # None
    THEN Some([start |-> st, end |-> r[1].end, caps |-> r[1].caps])
  ELSE Search(re, s, st + 1)

\* The leftmost match of re in s starting at st or later:
\* None, or Some([start, end, caps]).
Search(re, s, st) ==
  IF st > Len(s) + 1 THEN None
  ELSE SearchStep(re, s, st, Run(re.prog.nodes, s, st, NoCaptures(re.prog.ngroups)))

\* Regex::is_match.
IsMatch(re, s) == Search(re, s, 1) # None

\* The groups of the match m: group 0 (the whole match) first; a group that
\* took no part in the match is None.
Groups(s, m) ==
  IF m = None THEN None
  ELSE Some(<<Some(SubSeq(s, m[1].start, m[1].end - 1))>> \o m[1].caps)

\* Regex::captures.
Captures(re, s) == Groups(s, Search(re, s, 1))

\* Result<T, E>.
Ok(v) == [ok |-> TRUE, val |-> v]
Err(e) == [ok |-> FALSE, val |-> e]

\* Result::unwrap on an Ok; on an Err the caller panics instead.
Unwrap(res) == res.val

\* What a call comes to: the value it returns, or a panic unwinding it.
Returned(v) == [panicked |-> FALSE, value |-> v]
Panicked == [panicked |-> TRUE, value |-> None]

RECURSIVE NodesSize(_)
\* The size of a compiled program, in instructions: one per character a
\* node must or may take (a counted repetition is unrolled), two more for
\* a group.
NodesSize(nodes) ==
  IF nodes = <<>> THEN 0
  ELSE (IF nodes[1].op = "group" THEN 2 + NodesSize(nodes[1].body)
        ELSE IF nodes[1].max = -1 THEN nodes[1].min + 1
        ELSE nodes[1].max)
       + NodesSize(Tail(nodes))

\* The crate's size_limit on a compiled program (Regex and RegexSet
\* builders alike), in the units of NodesSize.
SizeLimit == 50

\* The compiled re, if it fits the size limit.
Sized(re) ==
  IF NodesSize(re.prog.nodes) > SizeLimit THEN Err("CompiledTooBig")
  ELSE Ok(re)

\* Regex::new(pattern): Err(CompiledTooBig) when the program exceeds the
\* size limit.  (The patterns the router builds are always well formed, so
\* Err(Syntax) does not arise.)
RegexNew(pattern) == Sized(Regex(pattern))

RECURSIVE SumSizes(_)
\* The size of the program a set of compiled expressions makes.
SumSizes(res) ==
  IF res = <<>> THEN 0
  ELSE NodesSize(res[1].prog.nodes) + SumSizes(Tail(res))

\* The set of compiled expressions, if it fits the size limit as a whole.
SizedSet(res) ==
  IF SumSizes(res) > SizeLimit THEN Err("CompiledTooBig") ELSE Ok(res)

\* RegexSet::new(patterns): the patterns compiled into one program; pattern
\* i of the set is patterns[i].
RegexSetNew(patterns) ==
  SizedSet([i \in 1..Len(patterns) |-> Regex(patterns[i])])

(***************************************************************************)
(* router/route.rs: the pattern compiler and Route.                        *)
(***************************************************************************)

\* SEGMENT_MATCH: ^\{(?::(?P<kind>[a-zA-Z]\w*))?\}$
SEGMENT_MATCH ==
  Unwrap(RegexNew(S(<<"^", "\\", "{", "(", "?", ":", ":", "(", "?", "P", "<", "k", "i", "n", "d", ">", "[", "a",
             "-", "z", "A", "-", "Z", "]", "\\", "w", "*", ")", ")", "?", "\\", "}", "$">>)))

\* MATCH_KINDS: the sub-expression of each known placeholder kind, as
\* <<name, pattern>> pairs.
MATCH_KINDS ==
  { <<S(<<"s", "t", "r", "i", "n", "g">>), S(<<"(", "[", "^", "/", "]", "+", ")">>)>>,
    <<S(<<"i", "n", "t">>), S(<<"(", "[", "-", "+", "]", "?", "\\", "d", "+", ")">>)>>,
    <<S(<<"u", "i", "n", "t">>), S(<<"(", "\\", "d", "+", ")">>)>>,
    <<S(<<"u", "u", "i", "d">>),
      S(<<"(", "[", "a", "-", "f", "A", "-", "F", "0", "-", "9", "]", "{",
          "8", "}", "-", "[", "a", "-", "f", "A", "-", "F", "0", "-", "9",
          "]", "{", "4", "}", "-", "[", "a", "-", "f", "A", "-", "F", "0",
          "-", "9", "]", "{", "4", "}", "-", "[", "a", "-", "f", "A", "-",
          "F", "0", "-", "9", "]", "{", "4", "}", "-", "[", "a", "-", "f",
          "A", "-", "F", "0", "-", "9", "]", "{", "1", "2", "}", ")">>)>> }

\* Map::get on MATCH_KINDS.
MatchKindsGet(name) ==
  IF \E e \in MATCH_KINDS : e[1] = name
    THEN Some((CHOOSE e \in MATCH_KINDS : e[1] = name)[2])
  ELSE None

\* Two sub-expressions the fallback is not: one that takes no empty
\* segment, ([^/]+), and one whose group may take no part in a match,
\* ([^/]+)?
NonEmptyKindPattern == S(<<"(", "[", "^", "/", "]", "+", ")">>)
OptionalKindPattern == S(<<"(", "[", "^", "/", "]", "+", ")", "?">>)

\* The sub-expression of a placeholder whose kind MATCH_KINDS does not know:
\* ([^/]*)
UnknownKindPattern == S(<<"(", "[", "^", "/", "]", "*", ")">>)

\* The kind name of a placeholder that gives none.
DefaultKind == S(<<"s", "t", "r", "i", "n", "g">>)

\* Option::unwrap_or.
UnwrapOr(opt, default) == IF opt = None THEN default ELSE opt[1]

\* regex_syntax::is_meta_character.
IsMetaCharacter(c) ==
  c \in { Ord("\\"), Ord("."), Ord("+"), Ord("*"), Ord("?"), Ord("("),
          Ord(")"), Ord("|"), Ord("["), Ord("]"), Ord("{"), Ord("}"),
          Ord("^"), Ord("$"), Ord("#"), Ord("&"), Ord("-"), Ord("~") }

\* The text as it is, escaping nothing.
NoEscape(text) == text

\* regex::escape: a backslash before every meta character.
RegexEscape(text) ==
  Concat([i \in 1..Len(text) |->
            IF IsMetaCharacter(text[i]) THEN <<Ord("\\"), text[i]>>
            ELSE <<text[i]>>])

\* The sub-expression of a placeholder, cap being what SEGMENT_MATCH
\* captured of it: that of the kind it names (string when it names none),
\* ([^/]*) when MATCH_KINDS does not know the kind.
KindPattern(cap) ==
  UnwrapOr(MatchKindsGet(UnwrapOr(cap[2], DefaultKind)), UnknownKindPattern)

\* A segment's sub-expression, cap being SEGMENT_MATCH.captures(part): a
\* placeholder's is that of its kind, anything else is its escaped text.
PartPattern(part, cap) ==
  IF cap # None THEN KindPattern(cap[1]) ELSE RegexEscape(part)

\* The closure parse maps over the template's segments.
SegmentPattern(part) == PartPattern(part, Captures(SEGMENT_MATCH, part))

\* Iterator::skip(1).
Skip1(items) == SubSeq(items, 2, Len(items))

\* normalized.split("/").skip(1): the template's segments.
TemplateSegments(path) == Skip1(Split(normalize_url(path), Ord("/")))

\* The fold and the push of parse: "^", then "/" and the sub-expression of
\* each segment, then "$".
JoinPattern(segs) ==
  S(<<"^">>)
    \o Concat([i \in 1..Len(segs) |-> S(<<"/">>) \o SegmentPattern(segs[i])])
    \o S(<<"$">>)

\* The pattern string parse builds.
PatternString(path) == JoinPattern(TemplateSegments(path))

\* parse(path) up to its last call: Regex::new(&pattern), which parse
\* unwraps.
parse(path) == RegexNew(PatternString(path))

\* The route of a template whose pattern compiled; a panic (parse
\* unwrapping an Err) otherwise.
RouteOf(path, method, handler, compiled) ==
  IF ~compiled.ok THEN Panicked
  ELSE Returned([path |-> path, method |-> method, handler |-> handler,
                 pattern |-> Unwrap(compiled)])

\* Route::new(path, method, handler).
RouteNew(path, method, handler) ==
  RouteOf(path, method, handler, parse(path))

(***************************************************************************)
(* router/build.rs: Build.                                                 *)
(***************************************************************************)

\* Build::add: self.routes.push(route).
BuildAdd(rs, route) == Append(rs, route)

\* The pattern strings finish hands to RegexSet::new, in route order.
PatternStrings(rs) == [i \in 1..Len(rs) |-> rs[i].pattern.src]

\* The routes in the opposite order.
Reversed(rs) == [i \in 1..Len(rs) |-> rs[Len(rs) + 1 - i]]

\* The routes finish moves into the Router.
FinishRoutes(rs) == rs

(***************************************************************************)
(* router/mod.rs: Router::lookup.                                          *)
(***************************************************************************)

\* A reference to a handler the router owns: where it lives (route i's
\* handler field, or the default) and the handler there.
RouteHandlerRef(i, route) == [at |-> <<"routes", i>>, h |-> route.handler]
DefaultHandlerRef(h) == [at |-> <<"default">>, h |-> h]

\* self.set.matches(path).iter(): the indices of the set's patterns that
\* match, in ascending order.
SetMatches(set, path) ==
  SelectSeq([i \in 1..Len(set) |-> i], LAMBDA i : IsMatch(set[i], path))

\* .flat_map(|i| self.routes.get(i)): the indices that name a route.
RoutesGet(routes, indices) ==
  SelectSeq(indices, LAMBDA i : i \in 1..Len(routes))

\* A filter that lets every route through, whatever its method.
AnyMethod(routes, indices, method) == indices

\* .filter(|route| method == &route.method)
MethodFilter(routes, indices, method) ==
  SelectSeq(indices, LAMBDA i : method = routes[i].method)

\* The routes of indices on which route.pattern.captures(path) is Some: the
\* ones the second flat_map yields an item for.
CapturesFilter(routes, indices, path) ==
  SelectSeq(indices, LAMBDA i : Captures(routes[i].pattern, path) # None)

\* Iterator::last: the last item, if any.
IterLast(items) == IF items = <<>> THEN None ELSE Some(items[Len(items)])

\* Iterator::next: the first item, if any.
IterNext(items) == IF items = <<>> THEN None ELSE Some(Head(items))

\* caps.iter() without the skip: group 0 with the rest.
KeepWholeMatch(groups) == groups

\* caps.iter().skip(1): the groups after group 0.
SkipWholeMatch(groups) == Tail(groups)

\* .map(|m| m.unwrap().as_str()).collect(): the text of every group, with
\* the route's handler.  A group that took no part in the match makes
\* m.unwrap() panic.
Collect(i, route, groups) ==
  IF \E k \in 1..Len(groups) : groups[k] = None THEN Panicked
  ELSE Returned(Some([handler |-> RouteHandlerRef(i, route),
                      caps |-> [k \in 1..Len(groups) |-> groups[k][1]]]))

\* The closure of the second flat_map, run on the route the iterator is
\* asked for.
CollectCaptures(i, route, path) ==
  Collect(i, route, SkipWholeMatch(Captures(route.pattern, path)[1]))

\* .or_else(|| self.default.as_ref().map(|h| (h, vec![])))
OrDefault(default) ==
  IF default # None
    THEN Returned(Some([handler |-> DefaultHandlerRef(default[1]),
                        caps |-> <<>>]))
  ELSE Returned(None)

\* What lookup returns, first being the first item of its iterator chain.
LookupResult(routes, default, path, first) ==
  IF first # None THEN CollectCaptures(first[1], routes[first[1]], path)
  ELSE OrDefault(default)

\* Router::lookup(method, path): None or Some([handler, caps]), returned,
\* unless collecting the captures panics.
lookup(routes, set, default, method, path) ==
  LookupResult(routes, default, path,
    IterNext(
      CapturesFilter(routes,
        MethodFilter(routes,
          RoutesGet(routes, SetMatches(set, path)), method), path)))

(***************************************************************************)
(* hyper.rs: the Service the router implements for hyper.                  *)
(***************************************************************************)

\* A path component that is empty reads as "/".
OrRoot(path) == IF path = <<>> THEN S(<<"/">>) ELSE path

\* req.uri().path(): the path component of the request target, as sent
\* (percent-encoded), without the query.
UriPath(target) == OrRoot(BeforeQuery(target))

\* The match arms of call: run the handler found with the captures as
\* owned strings, or answer 404 NOT FOUND.
Respond(found) ==
  IF found.panicked THEN Panicked
  ELSE IF found.value # None
    THEN Returned([status |-> "handled",
                   handler |-> Some(found.value[1].handler),
                   params |-> found.value[1].caps])
  ELSE Returned([status |-> "NOT_FOUND", handler |-> None, params |-> <<>>])

\* <Router as Service>::call: look the request's path up and respond.
ServiceCall(routes, set, default, method, target) ==
  Respond(lookup(routes, set, default, method, UriPath(target)))

(***************************************************************************)
(* The inputs the model draws from.                                        *)
(***************************************************************************)

\* The most routes a Build is given.
MaxRoutes == 2

Methods == {"GET", "POST"}

\* Handlers are opaque to the router.  Routes get the handlers 1, 2, ... in
\* registration order (as in test_basic_routes); a default handler is one
\* of these, so it may or may not equal a route's.
DefaultHandlers == {0, 1}

UuidText ==
  S(<<"0", "0", "0", "0", "0", "0", "0", "0", "-", "0", "0", "0",
    "0", "-", "0", "0", "0", "0", "-", "0", "0", "0", "0", "-",
    "0", "0", "0", "0", "0", "0", "0", "0", "0", "0", "a", "F">>)

\* Path templates routes are registered with.
Templates ==
  { S(<<"/", "s", "/", "p">>),
    S(<<"/", "s", "/", "{", ":", "u", "i", "n", "t", "}">>),
    S(<<"/", "s", "/", "{", "}">>),
    S(<<"/", "{", ":", "x", "}", "/", "{", ":", "i", "n", "t", "}">>),
    S(<<"/", "s", "/", "{", ":", "u", "u", "i", "d", "}">>) }

\* Decoded, query-free paths lookup is called with.
Paths ==
  { S(<<"/", "s", "/", "p">>),
    S(<<"/", "s", "/", "4">>),
    S(<<"/", "s", "/", "-", "4">>),
    S(<<"/", "/", "4">>),
    S(<<"/", "s", "o", "a", "p">>),
    S(<<"/", "s", "/", "%", "3", "4">>) }
    \cup { S(<<"/", "s", "/">>) \o UuidText }

\* Request targets the service is called with, as they arrive.
Targets ==
  { S(<<"/", "s", "/", "p", "?", "q", "=", "4">>),
    S(<<"/", "s", "/", "%", "3", "4">>),
    S(<<"/", "s", "/", "4">>) }

\* The longest path segment the matching of one route is tried on
\* exhaustively.
MaxSegLen == 2

\* The characters those segments are made of: an ASCII digit, the
\* ARABIC-INDIC DIGIT THREE (U+0663, a decimal digit that is not ASCII), the
\* signs, a letter and a dot.
Alphabet == { Ord("4"), 1635, Ord("-"), Ord("+"), Ord("a"), Ord(".") }

\* Every segment of at most n characters of the alphabet.
Segments(n) == UNION { [1..k -> Alphabet] : k \in 0..n }

\* Templates of one route each: every kind of placeholder, segments that
\* look like placeholders, literal segments with meta characters (one of
\* them percent-encoded) and a template that does not start with a slash.
MatchTemplates ==
  { S(<<"/", "s", "/", "{", ":", "u", "i", "n", "t", "}">>),
    S(<<"/", "s", "/", "{", ":", "i", "n", "t", "}">>),
    S(<<"/", "s", "/", "{", ":", "u", "u", "i", "d", "}">>),
    S(<<"/", "s", "/", "{", "}">>),
    S(<<"/", "s", "/", "{", ":", "s", "t", "r", "i", "n", "g", "}">>),
    S(<<"/", "s", "/", "{", ":", "x", "}">>),
    S(<<"/", "s", "/", "{", ":", "9", "}">>),
    S(<<"/", "s", "/", "{", ":", "}">>),
    S(<<"/", "s", "/", "4", "+">>),
    S(<<"/", "s", "/", "a", "%", "2", "E">>),
    S(<<"s", "/", "{", "}">>) }

\* Paths the one route is looked up with: /s/ and every short segment,
\* well-formed and malformed UUIDs, paths with fewer or more segments, and
\* the text of the templates that look like placeholders.
MatchPaths ==
  { S(<<"/", "s", "/">>) \o seg : seg \in Segments(MaxSegLen) }
    \cup { S(<<"/", "s", "/">>) \o UuidText }
    \cup { S(<<"/", "s", "/", "0", "0", "0", "0", "0", "0", "0", "0", "0", "-", "0", "0", "0", "-", "0", "0", "0", "0", "-", "0", "0", "0", "0", "-", "0", "0", "0", "0", "0", "0", "0", "0", "0", "0", "a", "F">>),
      S(<<"/", "s", "/", "0", "0", "0", "0", "0", "0", "0", "0", "-", "0", "0", "0", "0", "-", "0", "0", "0", "0", "-", "0", "0", "0", "0", "-", "0", "0", "0", "0", "0", "0", "0", "0", "0", "0", "a">>),
      S(<<"/", "s", "/", "0", "0", "0", "0", "0", "0", "0", "0", "-", "0", "0", "0", "0", "-", "0", "0", "0", "0", "-", "0", "0", "0", "0", "-", "0", "0", "0", "0", "0", "0", "0", "0", "0", "0", "a", "F", "F">>),
      S(<<"/", "s", "/", "0", "0", "0", "0", "0", "0", "0", "0", "-", "0", "0", "0", "0", "-", "0", "0", "0", "0", "-", "0", "0", "0", "0", "-", "0", "0", "0", "0", "0", "0", "0", "0", "0", "0", "a", "g">>),
      S(<<"/", "s", "/", "0", "0", "0", "0", "0", "0", "0", "0", "0", "0", "0", "0", "0", "0", "0", "0", "0", "0", "0", "0", "0", "0", "0", "0", "0", "0", "0", "0", "0", "0", "0", "0">>),
      S(<<"/", "s">>),
      S(<<"/", "s", "/", "4", "/">>),
      S(<<"/", "s", "/", "4", "/", "a">>),
      S(<<"a", "/", "s", "/", "4">>),
      S(<<"/", "t", "/", "4">>),
      S(<<"/", "s", "/", "{", ":", "9", "}">>),
      S(<<"/", "s", "/", "{", ":", "}">>),
      S(<<"/", "s", "/", "{", "}">>) }

(***************************************************************************)
(* The state: a Build while routes are registered, then the Router that    *)
(* finish() makes of it, used by one caller at a time.                     *)
(***************************************************************************)

VARIABLES
  phase,          \* "building": a Build is being filled;
                  \* "serving": the Router is idle;
                  \* "returned": a call on the Router has returned and the
                  \*   caller holds what it returned (for lookup, references
                  \*   that borrow the Router);
                  \* "panicked": a panic unwound the caller
  build_routes,   \* Build::routes
  build_default,  \* Build::default
  routes,         \* Router::routes
  set,            \* Router::set
  default,        \* Router::default
  added,          \* the routes given to Build::add so far, in call order
  given,          \* the handler of the latest with_default or set_default
  last            \* the latest call and what it returned

vars ==
  <<phase, build_routes, build_default, routes, set, default, added, given,
    last>>

\* A call's record: the operation, its arguments, the path lookup was given
\* and what came back.
Called(op, arg, method, target, path, result) ==
  [op |-> op, arg |-> arg, method |-> method, target |-> target,
   path |-> path, result |-> result]

NoArg == <<>>

\* Router::build(): Build::default().
Init ==
  /\ phase = "building"
  /\ build_routes = <<>>
  /\ build_default = None
  /\ routes = <<>>
  /\ set = <<>>
  /\ default = None
  /\ added = <<>>
  /\ given = None
  /\ last = Called("build", NoArg, NoArg, NoArg, NoArg, Returned(None))

\* Build::add(route), route being what Route::new came to: a panic there
\* unwinds the caller before add is called.
AddRoute(route) ==
  /\ phase = "building"
  /\ Len(build_routes) < MaxRoutes
  /\ IF ~route.panicked
       THEN /\ build_routes' = BuildAdd(build_routes, route.value)
            /\ added' = Append(added, route.value)
            /\ last' = Called("add", NoArg, NoArg, NoArg, NoArg, Returned(None))
            /\ UNCHANGED phase
       ELSE /\ phase' = "panicked"
            /\ last' = Called("add", NoArg, NoArg, NoArg, NoArg, Panicked)
            /\ UNCHANGED <<build_routes, added>>
  /\ UNCHANGED <<build_default, routes, set, default, given>>

\* build.add(Route::new(path, method, handler)).
Add(path, method, handler) == AddRoute(RouteNew(path, method, handler))

\* Build::with_default(default).
WithDefault(handler) ==
  /\ phase = "building"
  /\ build_default' = Some(handler)
  /\ given' = Some(handler)
  /\ last' = Called("with_default", handler, NoArg, NoArg, NoArg, Returned(None))
  /\ UNCHANGED <<phase, build_routes, routes, set, default, added>>

\* The rest of finish, compiled being what RegexSet::new returned: unwrap
\* it (a panic on an Err), then the Router.  The Build is consumed either
\* way.
FinishWith(compiled) ==
  /\ phase = "building"
  /\ IF compiled.ok
       THEN /\ phase' = "serving"
            /\ routes' = FinishRoutes(build_routes)
            /\ set' = Unwrap(compiled)
            /\ default' = build_default
            /\ last' = Called("finish", NoArg, NoArg, NoArg, NoArg, Returned(None))
       ELSE /\ phase' = "panicked"
            /\ last' = Called("finish", NoArg, NoArg, NoArg, NoArg, Panicked)
            /\ UNCHANGED <<routes, set, default>>
  /\ build_routes' = <<>>
  /\ build_default' = None
  /\ UNCHANGED <<added, given>>

\* Build::finish(self).
Finish == FinishWith(RegexSetNew(PatternStrings(build_routes)))

\* A call on the Router that changes nothing coming to res.
Answered(op, method, target, path, res) ==
  /\ phase = "serving"
  /\ last' = Called(op, NoArg, method, target, path, res)
  /\ phase' = IF res.panicked THEN "panicked" ELSE "returned"
  /\ UNCHANGED <<build_routes, build_default, routes, set, default, added,
                 given>>

\* Router::lookup(&self, method, path).
Lookup(method, path) ==
  Answered("lookup", method, NoArg, path,
           lookup(routes, set, default, method, path))

\* Router::set_default(&mut self, default).
SetDefault(handler) ==
  /\ phase = "serving"
  /\ default' = Some(handler)
  /\ given' = Some(handler)
  /\ last' = Called("set_default", handler, NoArg, NoArg, NoArg, Returned(None))
  /\ UNCHANGED <<phase, build_routes, build_default, routes, set, added>>

\* <Router as Service>::call(&mut self, req) for a request with the given
\* method and target; the path recorded is the one call hands to lookup.
Call(method, target) ==
  Answered("call", method, target, UriPath(target),
           ServiceCall(routes, set, default, method, target))

\* The caller is done with what the call returned (the borrow of the
\* Router ends); the Router is idle again.
Release ==
  /\ phase = "returned"
  /\ phase' = "serving"
  /\ last' = Called("release", NoArg, NoArg, NoArg, NoArg, Returned(None))
  /\ UNCHANGED <<build_routes, build_default, routes, set, default, added,
                 given>>

Next ==
  \/ \E path \in Templates, method \in Methods :
       Add(path, method, Len(build_routes) + 1)
  \/ \E handler \in DefaultHandlers : WithDefault(handler)
  \/ Finish
  \/ \E method \in Methods, path \in Paths : Lookup(method, path)
  \/ \E handler \in DefaultHandlers : SetDefault(handler)
  \/ \E method \in Methods, target \in Targets : Call(method, target)
  \/ Release

Spec == Init /\ [][Next]_vars

(***************************************************************************)
(* The matching of one route, tried on every path of MatchPaths: a Build   *)
(* that was given one route of MatchTemplates is finished and looked up.   *)
(***************************************************************************)

\* The Build after build.add(Route::new(template, GET, 1)).
InitMatch ==
  /\ phase = "building"
  /\ build_routes \in
       { <<RouteNew(template, "GET", 1).value>> : template \in MatchTemplates }
  /\ build_default = None
  /\ routes = <<>>
  /\ set = <<>>
  /\ default = None
  /\ added = build_routes
  /\ given = None
  /\ last = Called("add", NoArg, NoArg, NoArg, NoArg, Returned(None))

NextMatch ==
  \/ Finish
  \/ \E path \in MatchPaths : Lookup("GET", path)
  \/ Release

SpecMatch == InitMatch /\ [][NextMatch]_vars

(***************************************************************************)
(* Properties.  A lookup that has returned is the state with               *)
(* last.op = "lookup": last holds its arguments and its result, and the    *)
(* Router is as the lookup left it.                                        *)
(***************************************************************************)

\* The routes whose method is the one asked for and whose pattern matches
\* the path.
Matching(method, path) ==
  { i \in 1..Len(routes) :
      routes[i].method = method /\ IsMatch(routes[i].pattern, path) }

\* The least index of a non-empty set of indices.
Least(indices) == CHOOSE i \in indices : \A j \in indices : i <= j

\* The latest lookup returned route i's handler.
Selected(i) ==
  /\ last.op = "lookup"
  /\ ~last.result.panicked
  /\ last.result.value # None
  /\ last.result.value[1].handler.at = <<"routes", i>>

\* The segments of a path: what follows each of its slashes.
PathSegments(path) == Skip1(Split(path, Ord("/")))

\* Is a template segment one parse makes a capture of?
IsPlaceholder(part) == Captures(SEGMENT_MATCH, part) # None

\* The positions of the placeholders among a template's segments, in
\* template order.
Placeholders(tsegs) ==
  SelectSeq([k \in 1..Len(tsegs) |-> k], LAMBDA k : IsPlaceholder(tsegs[k]))

\* The path segments at the given positions.
SegmentsAt(psegs, positions) ==
  [j \in 1..Len(positions) |-> psegs[positions[j]]]

\* C1: when some route has the method asked for and a pattern matching the
\* path, lookup returns the handler of the first such route in registration
\* order.
C1_FirstRegisteredWins ==
  (last.op = "lookup" /\ Matching(last.method, last.path) # {}) =>
    /\ Selected(Least(Matching(last.method, last.path)))
    /\ last.result.value[1].handler.h =
         routes[Least(Matching(last.method, last.path))].handler

\* A lookup of /s/4 with /s/{:uint} registered before /s/{}: both match.
C1_Witness ==
  /\ last.op = "lookup"
  /\ phase = "returned"
  /\ Len(routes) = 2
  /\ routes[1].path = S(<<"/", "s", "/", "{", ":", "u", "i", "n", "t", "}">>)
  /\ routes[2].path = S(<<"/", "s", "/", "{", "}">>)
  /\ Matching(last.method, last.path) = {1, 2}

\* The default handler with no captures.
DefaultAnswer(d) == Some([handler |-> DefaultHandlerRef(d), caps |-> <<>>])

\* C2: the Router's default is the handler of the latest with_default or
\* set_default; with a default d, lookup returns (d, []) exactly when no
\* route has both the method asked for and a pattern matching the path;
\* without a default it then returns None.
C2_DefaultExactlyWhenNoRouteMatches ==
  /\ phase \in {"serving", "returned"} => default = given
  /\ last.op = "lookup" =>
       /\ ~last.result.panicked
       /\ given # None =>
            ((last.result.value = DefaultAnswer(given[1]))
               <=> (Matching(last.method, last.path) = {}))
       /\ (given = None /\ Matching(last.method, last.path) = {}) =>
            last.result.value = None

\* A lookup the default answered although a route's pattern matches the
\* path: that route has another method.
C2_Witness ==
  /\ last.op = "lookup"
  /\ phase = "returned"
  /\ given # None
  /\ last.result.value = DefaultAnswer(given[1])
  /\ \E i \in 1..Len(routes) :
       /\ IsMatch(routes[i].pattern, last.path)
       /\ routes[i].method # last.method

\* The captures lookup returned are the path's segments at the template's
\* placeholders.
CapturesOf(tsegs, psegs) ==
  /\ Len(psegs) = Len(tsegs)
  /\ last.result.value[1].caps = SegmentsAt(psegs, Placeholders(tsegs))

\* C3: when lookup selects a route, the captures are the path's segments at
\* the positions of the template's placeholders, one each, in template
\* order (none for a template without placeholders).
C3_CapturesArePlaceholderSegments ==
  \A i \in 1..Len(routes) :
    Selected(i) =>
      CapturesOf(TemplateSegments(routes[i].path), PathSegments(last.path))

\* A lookup that returned two captures, the first of them empty.
C3_Witness ==
  /\ phase = "returned"
  /\ \E i \in 1..Len(routes) :
       /\ Selected(i)
       /\ Len(Placeholders(TemplateSegments(routes[i].path))) = 2
       /\ Len(last.result.value[1].caps) = 2
       /\ last.result.value[1].caps[1] = <<>>
       /\ last.result.value[1].caps[2] # <<>>

\* The languages of the path template grammar table.
IsDigit09(c) == c \in 48..57
IsHex(c) == c \in 48..57 \/ c \in 65..70 \/ c \in 97..102

\* [0-9]+
IsUnsigned(seg) == seg # <<>> /\ \A k \in 1..Len(seg) : IsDigit09(seg[k])

\* [-+]?[0-9]+
IsSigned(seg) ==
  \/ IsUnsigned(seg)
  \/ seg # <<>> /\ seg[1] \in {Ord("-"), Ord("+")} /\ IsUnsigned(Tail(seg))

\* Hexadecimal in the 8-4-4-4-12 grouping, hyphen-separated.
IsUuid(seg) ==
  /\ Len(seg) = 36
  /\ \A k \in 1..36 :
       IF k \in {9, 14, 19, 24} THEN seg[k] = Ord("-") ELSE IsHex(seg[k])

\* One or more non-slash characters.
IsNonSlash(seg) == seg # <<>> /\ \A k \in 1..Len(seg) : seg[k] # Ord("/")

\* Is seg in the language the table gives the typed placeholder?
InLanguage(placeholder, seg) ==
  CASE placeholder = S(<<"{", ":", "u", "i", "n", "t", "}">>) -> IsUnsigned(seg)
    [] placeholder = S(<<"{", ":", "i", "n", "t", "}">>) -> IsSigned(seg)
    [] placeholder = S(<<"{", ":", "u", "u", "i", "d", "}">>) -> IsUuid(seg)
    [] placeholder = S(<<"{", "}">>) -> IsNonSlash(seg)
    [] placeholder = S(<<"{", ":", "s", "t", "r", "i", "n", "g", "}">>) ->
         IsNonSlash(seg)

TypedPlaceholders ==
  { S(<<"{", ":", "u", "i", "n", "t", "}">>), S(<<"{", ":", "i", "n", "t", "}">>),
    S(<<"{", ":", "u", "u", "i", "d", "}">>), S(<<"{", "}">>),
    S(<<"{", ":", "s", "t", "r", "i", "n", "g", "}">>) }

\* The template /s/<part> and the path /s/<seg>, seg without a slash.
IsUnderS(tsegs, part) == tsegs = <<S(<<"s">>), part>>
IsSegmentUnderS(path) ==
  /\ path # <<>> /\ path[1] = Ord("/")
  /\ Len(PathSegments(path)) = 2
  /\ PathSegments(path)[1] = S(<<"s">>)

\* C4: a route /s/<typed placeholder> is selected for the path /s/<seg>
\* exactly when seg is in the language the grammar table gives the
\* placeholder: [0-9]+ for {:uint}, [-+]?[0-9]+ for {:int}, 8-4-4-4-12
\* hexadecimal for {:uuid}, one or more non-slash characters for {} and
\* {:string}.
C4_TypedPlaceholdersAcceptTheTable ==
  (last.op = "lookup" /\ IsSegmentUnderS(last.path)) =>
    \A i \in 1..Len(routes), placeholder \in TypedPlaceholders :
      IsUnderS(TemplateSegments(routes[i].path), placeholder) =>
        (Selected(i) <=> InLanguage(placeholder, PathSegments(last.path)[2]))

\* Every literal segment of the template is the path's segment at its
\* position, and the path has the template's segments and no more.
LiteralsEqual(tsegs, path) ==
  /\ path # <<>> /\ path[1] = Ord("/")
  /\ Len(PathSegments(path)) = Len(tsegs)
  /\ \A k \in 1..Len(tsegs) :
       ~IsPlaceholder(tsegs[k]) => PathSegments(path)[k] = tsegs[k]

\* C5: a route is selected only for a path that starts with a slash, has
\* as many segments as the normalized template, and equals the template
\* character for character in every segment that is not a placeholder.
C5_LiteralSegmentsMatchExactly ==
  \A i \in 1..Len(routes) :
    Selected(i) => LiteralsEqual(TemplateSegments(routes[i].path), last.path)

\* Has the text a regex meta character?
HasMeta(text) == \E k \in 1..Len(text) : IsMetaCharacter(text[k])

\* A route whose template has a literal segment with a meta character was
\* selected.
C5_Witness ==
  /\ phase = "returned"
  /\ \E i \in 1..Len(routes) :
       /\ Selected(i)
       /\ \E k \in 1..Len(TemplateSegments(routes[i].path)) :
            /\ ~IsPlaceholder(TemplateSegments(routes[i].path)[k])
            /\ HasMeta(TemplateSegments(routes[i].path)[k])

\* A template segment of the form {:<name>}, and the name in it.
IsKindForm(part) ==
  /\ Len(part) > 3
  /\ part[1] = Ord("{") /\ part[2] = Ord(":") /\ part[Len(part)] = Ord("}")
KindName(part) == SubSeq(part, 3, Len(part) - 1)

KnownKinds == { e[1] : e \in MATCH_KINDS }

\* An ASCII letter, then word characters: the names SEGMENT_MATCH takes
\* for a kind.
IsIdentifier(name) ==
  /\ name # <<>>
  /\ name[1] \in 65..90 \/ name[1] \in 97..122
  /\ \A k \in 2..Len(name) : InClass(name[k], Class(FALSE, UnicodeWord))

\* Any non-slash text, the empty one included, is matched and captured.
TakesAnySegment(i, path) ==
  /\ parse(routes[i].path).ok
  /\ Selected(i)
  /\ last.result.value[1].caps = <<PathSegments(path)[2]>>

\* C6 as stated: a route /s/{:<name>} whose name is none of string, int,
\* uint, uuid is selected for every path /s/<seg>, the empty seg included,
\* and returns seg as its capture.
C6_AnyUnknownKindTakesAnySegment ==
  (last.op = "lookup" /\ IsSegmentUnderS(last.path)) =>
    \A i \in 1..Len(routes) :
      ( /\ Len(TemplateSegments(routes[i].path)) = 2
        /\ TemplateSegments(routes[i].path)[1] = S(<<"s">>)
        /\ IsKindForm(TemplateSegments(routes[i].path)[2])
        /\ KindName(TemplateSegments(routes[i].path)[2]) \notin KnownKinds )
      => TakesAnySegment(i, last.path)

\* C6, amended: a route /s/{:<name>} whose name is an ASCII letter followed
\* by word characters and none of string, int, uint, uuid is selected for
\* every path /s/<seg>, the empty seg included, and returns seg as its
\* capture.
C6_UnknownIdentifierKindTakesAnySegment ==
  (last.op = "lookup" /\ IsSegmentUnderS(last.path)) =>
    \A i \in 1..Len(routes) :
      ( /\ Len(TemplateSegments(routes[i].path)) = 2
        /\ TemplateSegments(routes[i].path)[1] = S(<<"s">>)
        /\ IsKindForm(TemplateSegments(routes[i].path)[2])
        /\ IsIdentifier(KindName(TemplateSegments(routes[i].path)[2]))
        /\ KindName(TemplateSegments(routes[i].path)[2]) \notin KnownKinds )
      => TakesAnySegment(i, last.path)

\* The route /s/{:x} selected for the path /s/ with the empty capture.
C6_Witness ==
  /\ phase = "returned"
  /\ last.path = S(<<"/", "s", "/">>)
  /\ Len(routes) = 1
  /\ routes[1].path = S(<<"/", "s", "/", "{", ":", "x", "}">>)
  /\ Selected(1)
  /\ last.result.value[1].caps = << <<>> >>

\* C7: when the routes' patterns do not compile into the set, finish
\* returns (an error the caller can inspect) instead of panicking.
C7_FinishReturnsItsError ==
  (last.op = "finish" /\ ~RegexSetNew(PatternStrings(added)).ok) =>
    ~last.result.panicked

\* C8: lookup never panics; every capture group of every route matching
\* the path took part in the match.
C8_LookupIsTotal ==
  last.op = "lookup" =>
    /\ ~last.result.panicked
    /\ \A i \in Matching(last.method, last.path) :
         \A k \in 1..Len(Captures(routes[i].pattern, last.path)[1]) :
           Captures(routes[i].pattern, last.path)[1][k] # None

\* A lookup among two routes with the same pattern returned a route with a
\* placeholder of an unknown kind, which captured the empty text.
C8_Witness ==
  /\ phase = "returned"
  /\ Len(routes) = 2
  /\ routes[1].pattern.src = routes[2].pattern.src
  /\ routes[1].method = routes[2].method
  /\ Selected(1)
  /\ last.result.value[1].caps = << <<>>, S(<<"4">>) >>

\* What call answers, lookup having returned found.
ResponseTo(found) ==
  IF found.value # None
    THEN [status |-> "handled", handler |-> Some(found.value[1].handler),
          params |-> found.value[1].caps]
  ELSE [status |-> "NOT_FOUND", handler |-> None, params |-> <<>>]

\* C9: call hands lookup the request's path percent-decoded and without
\* its query, runs the handler lookup finds with the captures, and answers
\* 404 when lookup finds none.
C9_CallNormalizesThePath ==
  last.op = "call" =>
    /\ last.path = normalize_url(last.target)
    /\ ~last.result.panicked
    /\ last.result.value =
         ResponseTo(lookup(routes, set, default, last.method,
                           normalize_url(last.target)))

\* The Router holds the routes added, in the order they were added, and
\* pattern i of its set is the pattern of route i.
RoutesAsAdded ==
  /\ phase = "building" => build_routes = added
  /\ phase \in {"serving", "returned"} =>
       /\ routes = added
       /\ Len(set) = Len(routes)
       /\ \A i \in 1..Len(routes) : set[i] = routes[i].pattern

\* A lookup or a call leaves the Router as it is; set_default leaves all
\* but the default.
RouterKept ==
  /\ (phase = "serving" /\ last'.op \in {"lookup", "call"}) =>
       UNCHANGED <<routes, set, default>>
  /\ (phase = "serving" /\ last'.op = "set_default") =>
       UNCHANGED <<routes, set>>

\* C10: the Build and the Router hold exactly the routes added, in
\* insertion order; pattern i of the set is the compiled pattern of route
\* i; lookup changes nothing and set_default only the default.
C10_RouteOrderAndIndexKept == []RoutesAsAdded /\ [][RouterKept]_vars

\* A lookup has returned from a Router of two routes with the same
\* pattern whose default was given.
C10_Witness ==
  /\ phase = "returned"
  /\ last.op = "lookup"
  /\ Len(routes) = 2
  /\ routes[1].pattern.src = routes[2].pattern.src
  /\ routes[1].handler # routes[2].handler
  /\ given # None

====
